---- MODULE Spec2Model ----
(***************************************************************************)
(* A model of alligregator (src/main.rs): for every folder of --folders,   *)
(* in order, the file <root>/<folder>/<filename> is opened, its first line *)
(* is read as the header, the remaining lines are read one at a time, and  *)
(* everything is appended to an in-memory vector of string fragments that  *)
(* is joined and written to the output file once, after the last folder.   *)
(*                                                                         *)
(* Files are sequences of bytes.  Strings are sequences of characters; a   *)
(* folder name and the column label are one character each.                *)
(***************************************************************************)
EXTENDS Integers, Sequences, FiniteSets, TLC

(* ---------------------------- bounds ---------------------------------- *)

\* The bytes of all input files together.
MaxBytes == 3
\* The number of entries of --folders.
MaxFolders == 2

(* --------------------------- alphabet --------------------------------- *)

LF == "\n"
CR == "\r"
\* A byte that is not valid UTF-8.
BAD == "<FF>"
Byte == {"x", LF, CR, BAD}

Column == "col"
Comma == ","

\* What the output path holds while no file exists there (no content a
\* file can have: "absent" is not a byte).
NoFile == <<"absent">>

(* ------------------------ sequence helpers ---------------------------- *)

SeqsUpTo(S, n) == UNION {[1..k -> S] : k \in 0..n}

RECURSIVE Concat(_)
\* [String]::join(""): the fragments, concatenated in order.
Concat(ss) == IF ss = <<>> THEN <<>> ELSE Head(ss) \o Concat(Tail(ss))

\* The index of the first LF of s, 0 when there is none.
FirstLF(s) ==
  IF \E i \in 1..Len(s) : s[i] = LF
  THEN CHOOSE i \in 1..Len(s) : s[i] = LF /\ \A j \in 1..(i - 1) : s[j] # LF
  ELSE 0

(* ------------------------- library routines --------------------------- *)

\* BufRead::read_until(b'\n'): the bytes up to and including the first LF,
\* or all that is left when there is none.
ReadUntilLF(r) == IF FirstLF(r) = 0 THEN r ELSE SubSeq(r, 1, FirstLF(r))

\* What read_until leaves in the reader.
AfterLine(r) == SubSeq(r, Len(ReadUntilLF(r)) + 1, Len(r))

\* str::from_utf8 on the bytes read_line has read.
ValidUtf8(s) == \A i \in 1..Len(s) : s[i] # BAD

RECURSIVE ReplaceCRLF(_)
\* str::replace("\r\n", "\n"): every CR LF pair, left to right, becomes LF.
ReplaceCRLF(s) ==
  IF Len(s) >= 2 /\ s[1] = CR /\ s[2] = LF
  THEN <<LF>> \o ReplaceCRLF(SubSeq(s, 3, Len(s)))
  ELSE IF s = <<>> THEN <<>> ELSE <<Head(s)>> \o ReplaceCRLF(Tail(s))

\* io::Lines::next on a line read_line returned: the final LF is removed,
\* and then a CR that ends the rest.
StripLineEnd(s) ==
  IF s # <<>> /\ s[Len(s)] = LF
  THEN IF Len(s) >= 2 /\ s[Len(s) - 1] = CR
       THEN SubSeq(s, 1, Len(s) - 2)
       ELSE SubSeq(s, 1, Len(s) - 1)
  ELSE s

\* File::write_all on a fresh handle: the bytes replace the file's content
\* from offset 0 on; what the file holds beyond them stays.
WriteAt0(old, data) == data \o SubSeq(old, Len(data) + 1, Len(old))

(* ------------------------------ state --------------------------------- *)

VARIABLES
  folders,       \* args.folders.split(','), a sequence of folder names
  verbose,       \* args.verbose
  error,         \* args.error: "panic" or "skip"
  fs,            \* the input file of every folder
  outAccess,     \* what File::create on the output path yields
  outFile,       \* the content of the output file, NoFile before it exists
  pc,            \* the position of main
  idx,           \* the index in folders of the loop's current folder
  reader,        \* the bytes the current BufReader has not consumed yet
  lines,         \* the vector of fragments
  found_header,  \* whether a header has been appended
  stdout,        \* the messages println! wrote
  panicMsg,      \* the message of the panic that ended the run
  tick,          \* the parity of the failed reads of the body loop
  run,           \* "first" or "second" invocation on the same inputs
  firstRun       \* how the first invocation ended, once it has

vars == <<folders, verbose, error, fs, outAccess, outFile, pc, idx, reader,
          lines, found_header, stdout, panicMsg, tick, run, firstRun>>

args == <<folders, verbose, error>>
env == <<fs, outAccess>>

NoPanic == <<>>
NotYet == [pc |-> "none", outFile |-> NoFile]

\* A missing file, a file that may not be opened, a path File::open fails
\* on otherwise, and a file with its bytes.  fault says how the device
\* behaves: "none", "first" (the first read fails) or "later" (the first
\* read delivers the whole file and every read after it fails).
Absent == [kind |-> "absent", bytes |-> <<>>, fault |-> "none"]
Denied == [kind |-> "denied", bytes |-> <<>>, fault |-> "none"]
OtherErr == [kind |-> "other", bytes |-> <<>>, fault |-> "none"]
FileOf(b, f) == [kind |-> "file", bytes |-> b, fault |-> f]

\* The size of a file: its bytes, and one more for a faulty device or a
\* file that fails to open.
Weight(st) ==
  Len(st.bytes) + (IF st.fault = "none" /\ st.kind \in {"file", "absent"} THEN 0 ELSE 1)

\* The files of size at most n.
FileStates(n) ==
  {Absent}
    \cup {FileOf(b, "none") : b \in SeqsUpTo(Byte, n)}
    \cup (IF n >= 1 THEN {Denied, OtherErr} ELSE {})
    \cup {FileOf(b, f) : b \in SeqsUpTo(Byte, n - 1), f \in {"first", "later"}}

RECURSIVE TotalWeight(_)
TotalWeight(t) == IF t = <<>> THEN 0 ELSE Weight(Head(t)) + TotalWeight(Tail(t))

RECURSIVE FileTuples(_)
\* The files of n folders, of at most MaxBytes together.
FileTuples(n) ==
  IF n = 0 THEN {<<>>}
  ELSE UNION {{Append(t, st) : st \in FileStates(MaxBytes - TotalWeight(t))} :
                t \in FileTuples(n - 1)}

\* --folders names distinct folders, the first n of these.
Names == <<"a", "b", "c", "d", "e">>
NameIndex(f) == CHOOSE i \in 1..Len(Names) : Names[i] = f

Init ==
  /\ \E n \in 1..MaxFolders : \E t \in FileTuples(n) :
       /\ folders = SubSeq(Names, 1, n)
       /\ fs = [f \in {Names[i] : i \in 1..n} |-> t[NameIndex(f)]]
  /\ verbose \in BOOLEAN
  /\ error \in {"panic", "skip"}
  \* When File::create fails no input is opened: those runs are taken on
  \* the file systems without input files.
  /\ outAccess \in {"ok"} \cup
       (IF \A f \in DOMAIN fs : fs[f] = Absent THEN {"denied", "other"} ELSE {})
  /\ outFile \in {NoFile, <<"x">>}
  /\ pc = "start"
  /\ idx = 1
  /\ reader = <<>>
  /\ lines = <<>>
  /\ found_header = FALSE
  /\ stdout = <<>>
  /\ panicMsg = NoPanic
  /\ tick = 0
  /\ run = "first"
  /\ firstRun = NotYet

(* ----------------------------- actions -------------------------------- *)

folder == folders[idx]
file == fs[folder]

\* panic!: the run ends; unwinding drops the BufWriter, whose buffer is
\* empty, so the output file is left as it is.
Panic(msg) ==
  /\ pc' = "aborted"
  /\ panicMsg' = msg
  /\ UNCHANGED <<args, env, outFile, idx, reader, lines, found_header,
                 stdout, tick, run, firstRun>>

\* create_output opening the file without truncating it.
CreateOutput_NoTruncate ==
  /\ pc = "start"
  /\ IF outAccess = "ok"
     THEN /\ outFile' = IF outFile = NoFile THEN <<>> ELSE outFile
          /\ pc' = "open"
          /\ UNCHANGED <<args, env, idx, reader, lines, found_header, stdout,
                         panicMsg, tick, run, firstRun>>
     ELSE Panic(<<"create", outAccess>>)

\* create_output, and the initialisation of lines and found_header.
CreateOutput ==
  /\ pc = "start"
  /\ IF outAccess = "ok"
     THEN /\ outFile' = <<>>
          /\ pc' = "open"
          /\ UNCHANGED <<args, env, idx, reader, lines, found_header, stdout,
                         panicMsg, tick, run, firstRun>>
     ELSE Panic(<<"create", outAccess>>)

\* open_input on a file that exists and opens.
OpenInput ==
  /\ pc = "open" /\ idx <= Len(folders)
  /\ file.kind = "file"
  /\ reader' = file.bytes
  /\ pc' = "header"
  /\ UNCHANGED <<args, env, outFile, idx, lines, found_header, stdout,
                 panicMsg, tick, run, firstRun>>

\* open_input returning None on every error kind, so that --error skip
\* skips a file that may not be opened.
OpenFails_AsNotFound ==
  /\ pc = "open" /\ idx <= Len(folders)
  /\ file.kind \in {"denied", "other"}
  /\ IF error = "skip"
     THEN /\ idx' = idx + 1
          /\ UNCHANGED <<args, env, outFile, pc, reader, lines, found_header,
                         stdout, panicMsg, tick, run, firstRun>>
     ELSE Panic(<<"notfound", folder>>)

\* open_input panics on PermissionDenied and on every other error kind
\* but NotFound.
OpenFails ==
  /\ pc = "open" /\ idx <= Len(folders)
  /\ file.kind \in {"denied", "other"}
  /\ Panic(<<"open", file.kind, folder>>)

\* The skip branch setting found_header.
SkipAbsent_MarksHeader ==
  /\ pc = "open" /\ idx <= Len(folders)
  /\ file.kind = "absent"
  /\ error = "skip"
  /\ stdout' = IF verbose THEN Append(stdout, <<"skipping", folder>>) ELSE stdout
  /\ idx' = idx + 1
  /\ found_header' = TRUE
  /\ UNCHANGED <<args, env, outFile, pc, reader, lines, panicMsg, tick, run,
                 firstRun>>

\* The skip branch printing without looking at args.verbose.
SkipAbsent_AlwaysLogs ==
  /\ pc = "open" /\ idx <= Len(folders)
  /\ file.kind = "absent"
  /\ error = "skip"
  /\ stdout' = Append(stdout, <<"skipping", folder>>)
  /\ idx' = idx + 1
  /\ UNCHANGED <<args, env, outFile, pc, reader, lines, found_header,
                 panicMsg, tick, run, firstRun>>

\* open_input returned None and --error is skip: continue.
SkipAbsent ==
  /\ pc = "open" /\ idx <= Len(folders)
  /\ file.kind = "absent"
  /\ error = "skip"
  /\ stdout' = IF verbose THEN Append(stdout, <<"skipping", folder>>) ELSE stdout
  /\ idx' = idx + 1
  /\ UNCHANGED <<args, env, outFile, pc, reader, lines, found_header,
                 panicMsg, tick, run, firstRun>>

\* The panic branch continuing with the next folder instead.
PanicAbsent_Continues ==
  /\ pc = "open" /\ idx <= Len(folders)
  /\ file.kind = "absent"
  /\ error # "skip"
  /\ idx' = idx + 1
  /\ UNCHANGED <<args, env, outFile, pc, reader, lines, found_header, stdout,
                 panicMsg, tick, run, firstRun>>

\* open_input returned None and --error is panic.
PanicAbsent ==
  /\ pc = "open" /\ idx <= Len(folders)
  /\ file.kind = "absent"
  /\ error # "skip"
  /\ Panic(<<"notfound", folder>>)

\* Whether read_line on the header fails: the device fails on the first
\* read, or on the read that looks for more after a chunk without LF, or
\* the bytes read are not UTF-8.  (An empty file ends the first read.)
HeaderReadFails ==
  \/ file.fault = "first"
  \/ file.fault = "later" /\ reader # <<>> /\ FirstLF(reader) = 0
  \/ ~ValidUtf8(ReadUntilLF(reader))

\* reader.read_line(&mut header), and the header pushed when none was yet.
ReadHeader ==
  /\ pc = "header"
  /\ IF HeaderReadFails
     THEN Panic(<<"header", folder>>)
     ELSE /\ lines' = IF found_header THEN lines
                      ELSE lines \o <<<<Column>>, <<Comma>>, ReplaceCRLF(ReadUntilLF(reader))>>
          /\ found_header' = TRUE
          /\ reader' = AfterLine(reader)
          /\ pc' = "body"
          /\ UNCHANGED <<args, env, outFile, idx, stdout, panicMsg, tick,
                         run, firstRun>>

\* Whether the next read_line of the body loop gets its line: the reader
\* holds a whole line, or the device delivers the end of the file.
BodyReadable == reader # <<>> /\ (FirstLF(reader) # 0 \/ file.fault = "none")

\* One iteration of the body loop on a line that read_line returned Ok.
BodyLine ==
  /\ pc = "body"
  /\ BodyReadable /\ ValidUtf8(ReadUntilLF(reader))
  /\ lines' = lines \o <<<<folder>>, <<Comma>>, StripLineEnd(ReadUntilLF(reader)), <<LF>>>>
  /\ reader' = AfterLine(reader)
  /\ UNCHANGED <<args, env, outFile, pc, idx, found_header, stdout, panicMsg,
                 tick, run, firstRun>>

\* read_line consumed a line that is not UTF-8: Lines yields Err, which
\* filter_map(|result| result.ok()) drops.
BodyDrop ==
  /\ pc = "body"
  /\ BodyReadable /\ ~ValidUtf8(ReadUntilLF(reader))
  /\ reader' = AfterLine(reader)
  /\ UNCHANGED <<args, env, outFile, pc, idx, lines, found_header, stdout,
                 panicMsg, tick, run, firstRun>>

\* The device fails when read_line asks it for more: Lines yields Err,
\* filter_map drops it and asks again.  What was left of a line without
\* LF has been consumed.
BodyFault ==
  /\ pc = "body"
  /\ file.fault = "later" /\ FirstLF(reader) = 0
  /\ reader' = <<>>
  /\ tick' = 1 - tick
  /\ UNCHANGED <<args, env, outFile, pc, idx, lines, found_header, stdout,
                 panicMsg, run, firstRun>>

\* read_line returned Ok(0): Lines yields None and the folder is done.
BodyEnd ==
  /\ pc = "body"
  /\ reader = <<>> /\ file.fault = "none"
  /\ idx' = idx + 1
  /\ pc' = "open"
  /\ UNCHANGED <<args, env, outFile, reader, lines, found_header, stdout,
                 panicMsg, tick, run, firstRun>>

\* out.write_all(lines.join("").as_bytes()) after the last folder; the
\* BufWriter is flushed when main returns.
WriteAll ==
  /\ pc = "open" /\ idx > Len(folders)
  /\ outFile' = WriteAt0(outFile, Concat(lines))
  /\ pc' = "done"
  /\ UNCHANGED <<args, env, idx, reader, lines, found_header, stdout,
                 panicMsg, tick, run, firstRun>>

\* The program is started again with the same arguments on the same files.
Rerun ==
  /\ pc \in {"done", "aborted"} /\ run = "first"
  /\ firstRun' = [pc |-> pc, outFile |-> outFile]
  /\ run' = "second"
  /\ pc' = "start"
  /\ idx' = 1
  /\ reader' = <<>>
  /\ lines' = <<>>
  /\ found_header' = FALSE
  /\ stdout' = <<>>
  /\ panicMsg' = NoPanic
  /\ tick' = 0
  /\ UNCHANGED <<args, env, outFile>>

Next ==
  \/ CreateOutput
  \/ OpenInput
  \/ OpenFails
  \/ SkipAbsent
  \/ PanicAbsent
  \/ ReadHeader
  \/ BodyLine
  \/ BodyDrop
  \/ BodyFault
  \/ BodyEnd
  \/ WriteAll
  \/ Rerun

Spec == Init /\ [][Next]_vars

\* The steps of the program; main runs them one after the other, so one
\* that is enabled is eventually taken.
Step ==
  \/ CreateOutput
  \/ OpenInput
  \/ OpenFails
  \/ SkipAbsent
  \/ PanicAbsent
  \/ ReadHeader
  \/ BodyLine
  \/ BodyDrop
  \/ BodyFault
  \/ BodyEnd
  \/ WriteAll

FairSpec == Init /\ [][Next]_vars /\ WF_vars(Step)

(* ------------------- what the claims speak about ---------------------- *)

Listed == 1..Len(folders)
FileAt(i) == fs[folders[i]]
Exists(i) == FileAt(i).kind = "file"
\* A file that opens, whose device works and whose bytes are text.
Readable(i) == Exists(i) /\ FileAt(i).fault = "none" /\ ValidUtf8(FileAt(i).bytes)
Ended == pc \in {"done", "aborted"}

RECURSIVE RawLines(_)
\* The lines of a file, each with its terminator.
RawLines(s) == IF s = <<>> THEN <<>> ELSE <<ReadUntilLF(s)>> \o RawLines(AfterLine(s))

RECURSIVE SplitLF(_)
\* The lines of a text without their LF.
SplitLF(s) ==
  IF s = <<>> THEN <<>>
  ELSE IF FirstLF(s) = 0 THEN <<s>>
  ELSE <<SubSeq(s, 1, FirstLF(s) - 1)>> \o SplitLF(SubSeq(s, FirstLF(s) + 1, Len(s)))

\* The text of a line: the line without its LF or CR LF.
TextOf(raw) == StripLineEnd(raw)

\* The first line of a file, the empty text for an empty file.
FirstLineText(b) == IF b = <<>> THEN <<>> ELSE TextOf(RawLines(b)[1])

\* The lines after the first.
BodyRaw(b) == IF b = <<>> THEN <<>> ELSE Tail(RawLines(b))

RECURSIVE RowLines(_, _)
\* The rows `<folder>,<line text>` of the decodable lines rs of folder f.
RowLines(f, rs) ==
  IF rs = <<>> THEN <<>>
  ELSE (IF ValidUtf8(Head(rs)) THEN <<<<f, Comma>> \o TextOf(Head(rs))>> ELSE <<>>)
         \o RowLines(f, Tail(rs))

RECURSIVE RowsFrom(_)
\* The rows of the folders i, i+1, ... whose file exists, in list order.
RowsFrom(i) ==
  IF i > Len(folders) THEN <<>>
  ELSE (IF Exists(i) THEN RowLines(folders[i], BodyRaw(FileAt(i).bytes)) ELSE <<>>)
         \o RowsFrom(i + 1)

RECURSIVE Terminated(_)
\* Every line of ls followed by LF.
Terminated(ls) == IF ls = <<>> THEN <<>> ELSE Head(ls) \o <<LF>> \o Terminated(Tail(ls))

OutLines == IF outFile = NoFile THEN <<>> ELSE SplitLF(outFile)
HeaderLines == {i \in 1..Len(OutLines) : OutLines[i] # <<>> /\ OutLines[i][1] = Column}

SomeExists == \E i \in Listed : Exists(i)
FirstExisting == CHOOSE i \in Listed : Exists(i) /\ \A j \in 1..(i - 1) : ~Exists(j)

\* The bytes a completed run writes: the column label, a comma and the
\* first existing file's first line as read (CR LF made LF), then the rows.
ExpectedBytes ==
  IF ~SomeExists THEN <<>>
  ELSE LET b == FileAt(FirstExisting).bytes IN
       <<Column, Comma>>
         \o (IF b = <<>> THEN <<>> ELSE ReplaceCRLF(RawLines(b)[1]))
         \o Terminated(RowsFrom(1))

(* ----------------------------- claims --------------------------------- *)

\* C1: when every listed folder's file exists and is readable, the written
\* output has exactly one header line, it is the first line, and it is
\* `<column>,<first line of the first listed folder's file>`.
C1_OneHeaderLine ==
  (pc = "done" /\ \A i \in Listed : Readable(i))
    => /\ OutLines # <<>>
       /\ OutLines[1] = <<Column, Comma>> \o FirstLineText(FileAt(1).bytes)
       /\ HeaderLines = {1}

\* C2: when every listed folder's file was opened and is text, the lines of
\* the output after the header line are the rows `<folder>,<line text>` of
\* the lines after the first of every file, each a line of its own, in the
\* order of the input and of --folders.
C2_RowsInOrder ==
  (pc = "done" /\ \A i \in Listed : Readable(i))
    => /\ OutLines # <<>>
       /\ Tail(OutLines) = RowsFrom(1)

\* C5: in a completed run in which some file exists, the first line of the
\* output is `<column>,<first line of the first existing file>`, it is the
\* only header line, and every later line is a row of a processed folder.
C5_HeaderThenRows ==
  (pc = "done" /\ SomeExists)
    => /\ OutLines # <<>>
       /\ OutLines[1] = <<Column, Comma>> \o FirstLineText(FileAt(FirstExisting).bytes)
       /\ HeaderLines = {1}
       /\ \A k \in 2..Len(OutLines) : \E j \in 1..Len(RowsFrom(1)) : OutLines[k] = RowsFrom(1)[j]

\* A completed run has written the expected bytes and nothing else.
WroteExpected == pc = "done" => outFile = ExpectedBytes

SomeAbsent == \E i \in Listed : FileAt(i).kind = "absent"
FirstAbsent ==
  CHOOSE i \in Listed : FileAt(i).kind = "absent"
                          /\ \A j \in 1..(i - 1) : FileAt(j).kind # "absent"
\* The output file has been created by this run or the one before.
Created == outAccess = "ok" /\ (pc # "start" \/ run = "second")
AtOpen == pc = "open" /\ idx \in Listed

\* C3: under --error panic, when a listed folder's file is absent the run
\* never gets past that folder and never writes: it ends in the panic that
\* names the folder, and the created output file holds zero bytes.
C3_AbortNoWrite ==
  (error = "panic" /\ SomeAbsent)
    => /\ pc # "done"
       /\ idx <= FirstAbsent
       /\ Created => outFile = <<>>
       /\ (pc = "aborted" /\ outAccess = "ok" /\ idx = FirstAbsent)
            => panicMsg = <<"notfound", folders[FirstAbsent]>>

\* The run read the rows of folder a and panicked on the absent folder b.
C3_Witness ==
  /\ error = "panic" /\ pc = "aborted" /\ run = "first"
  /\ panicMsg = <<"notfound", "b">>
  /\ Len(lines) > 3
  /\ outFile = <<>>

C4_SkipStep ==
  (AtOpen /\ FileAt(idx).kind = "absent" /\ error = "skip")
    => /\ lines' = lines
       /\ found_header' = found_header
       /\ outFile' = outFile
       /\ pc' = "open" /\ idx' = idx + 1
       /\ panicMsg' = panicMsg

\* C4: under --error skip, the step on a folder whose file is absent leaves
\* the line buffer and the header flag as they are and goes on to the next
\* folder; no run ends in the not-found panic, and a run that completes has
\* written the header and rows of the other folders.
C4_SkipContinues ==
  /\ [][C4_SkipStep]_vars
  /\ [](error = "skip" => /\ pc = "aborted" => panicMsg[1] # "notfound"
                          /\ WroteExpected)

\* A completed run under skip that passed an absent folder and wrote a row.
C4_Witness ==
  /\ error = "skip" /\ pc = "done" /\ run = "first"
  /\ SomeAbsent
  /\ RowsFrom(1) # <<>>
  /\ outFile # <<>>

C6_OpenStep ==
  /\ (AtOpen /\ FileAt(idx).kind \in {"denied", "other"})
       => /\ pc' = "aborted"
          /\ panicMsg' = <<"open", FileAt(idx).kind, folders[idx]>>
          /\ outFile = <<>> /\ outFile' = <<>>
  /\ (AtOpen /\ FileAt(idx).kind = "absent")
       => IF error = "skip"
          THEN pc' = "open" /\ idx' = idx + 1
          ELSE pc' = "aborted" /\ panicMsg' = <<"notfound", folders[idx]>>

\* C6: a file that is not found is left to the error mode; a file that may
\* not be opened, or fails to open otherwise, ends the run in a panic under
\* both error modes, and nothing is written.
C6_OpenOutcomes ==
  /\ [][C6_OpenStep]_vars
  /\ [](pc = "done" => \A i \in Listed : FileAt(i).kind \in {"file", "absent"})

\* Under skip, the run read folder a and panicked on opening b's file.
C6_Witness ==
  /\ error = "skip" /\ pc = "aborted" /\ run = "first"
  /\ idx = 2 /\ panicMsg[1] = "open"
  /\ lines # <<>>
  /\ outFile = <<>>

\* C7: the second run on the same arguments and files ends as the first
\* and leaves the same output file; what a run leaves is determined by the
\* arguments and the input files, whatever the output file held before.
C7_Deterministic ==
  /\ (run = "second" /\ Ended) => firstRun = [pc |-> pc, outFile |-> outFile]
  /\ (Ended /\ outAccess = "ok")
       => outFile = IF pc = "done" THEN ExpectedBytes ELSE <<>>

\* The second run completed and rewrote a non-empty output.
C7_Witness ==
  /\ run = "second" /\ pc = "done"
  /\ outFile # <<>>
  /\ firstRun.outFile = outFile

\* C8 as stated: with --verbose, every folder processed successfully has a
\* completion message naming it on stdout.
C8_CompletionLogged ==
  (verbose /\ pc = "done")
    => \A i \in Listed :
         Exists(i) => \E j \in 1..Len(stdout) :
                        stdout[j][1] # "skipping" /\ stdout[j][2] = folders[i]

RECURSIVE SkipLog(_)
\* One "skipping" message for every absent folder the loop has passed.
SkipLog(i) ==
  IF i >= idx THEN <<>>
  ELSE (IF FileAt(i).kind = "absent" THEN <<<<"skipping", folders[i]>>>> ELSE <<>>)
         \o SkipLog(i + 1)

\* C8, amended: with --verbose, stdout holds one "skipping" message for
\* every absent folder skipped, in order, and nothing else; a folder that
\* was processed logs nothing; without --verbose stdout stays empty.
C8_OnlySkipLogged == stdout = IF verbose THEN SkipLog(1) ELSE <<>>

\* A verbose run completed, having processed a folder and skipped another.
C8_Witness ==
  /\ verbose /\ pc = "done"
  /\ SomeExists /\ SomeAbsent
  /\ stdout # <<>>

\* The next read of the body loop fails: the line is not UTF-8, or the
\* device fails.
BodyReadFails ==
  /\ pc = "body"
  /\ \/ BodyReadable /\ ~ValidUtf8(ReadUntilLF(reader))
     \/ file.fault = "later" /\ FirstLF(reader) = 0

\* C9: a body read that fails is dropped and the loop goes on: the rest of
\* the file is read and the next folder is reached.
C9_DropAndGoOn == BodyReadFails ~> (pc = "open")

\* C10: every run ends, in completion or in a panic.
C10_Terminates == <>Ended


====
